---- MODULE Spec2Model ----
(***************************************************************************)
(* tsh - a tiny shell with job control (src/tsh.c).                        *)
(*                                                                         *)
(* The model has one main line of control (the read/eval loop, eval,       *)
(* do_bgfg, waitfg) and a stack of nested signal-handler invocations       *)
(* (sigchld_handler, sigint_handler, sigtstp_handler).  Handlers are       *)
(* installed with an empty sa_mask (Signal), so while a handler runs only  *)
(* its own signal is blocked; any other unblocked pending signal can be    *)
(* delivered on top of it.  The main line runs only when no handler is     *)
(* active.  Child processes are the environment: they exit, are killed or  *)
(* are stopped at arbitrary moments.                                       *)
(*                                                                         *)
(* Table scans (fgpid, getjobpid, getjobjid, pid2jid, maxjid) are taken as *)
(* one step: a handler that interrupts a scan can only free a slot or      *)
(* turn FG into ST, so an interrupted scan returns what an uninterrupted   *)
(* scan returns just before or just after the handler.                     *)
(***************************************************************************)
EXTENDS Integers, Sequences, FiniteSets, TLC

\* ------------------------------------------------------------------ bounds
MAXJOBS == 2        \* slots of the job list (16 in tsh.c) in Spec
TableJobs == 4      \* slots of the job list in SpecTable
TablePids == 5      \* pids handed to addjob in SpecTable
MaxJid == 6         \* SpecTable stops adding once nextjid exceeds it
MaxProcs == 3       \* number of fork() calls in a run
MaxArgLen == 2      \* length of the argument given to bg / fg
MaxEnvSigs == 1     \* signals raised by the environment in a run: keys typed
                    \* at the terminal and signals other processes send to
                    \* the children
MaxKeys == 2        \* keys typed at the terminal in a run of SpecKeys

\* --------------------------------------------------------------- constants
UNDEF == 0
FG == 1
BG == 2
ST == 3

\* the job list is jobs[MAXJOBS]: its capacity is its number of slots
Capacity(js) == Len(js)
Slots(js) == 1..Capacity(js)
Pids == 1..MaxProcs
Sigs == {"CHLD", "INT", "TSTP"}

VARIABLES
    jobs,       \* the job list: slot -> [pid, jid, state, cmdline]
    nextjid,    \* next job ID to allocate
    pc,         \* position of the main line of control
    m,          \* locals of the main line: pid, bg, isbg, job, prev, and
                \* lines, what the running listbgjobs has printed so far
    mask,       \* the shell's signal mask (set of blocked signals)
    pending,    \* signals pending for the shell
    stack,      \* active handler invocations, innermost last
    proc,       \* state of each child process
    nsig,       \* number of signals the environment has raised so far
    out,        \* lines printed by the last step
    sent        \* signal sent with kill() by the last step: <<pgid, sig>>

vars == <<jobs, nextjid, pc, m, mask, pending, stack, proc, nsig, out, sent>>

\* ------------------------------------------------------- job list helpers
NoJob == [pid |-> 0, jid |-> 0, state |-> UNDEF, cmdline |-> ""]

clearjob(job) == NoJob

initjobs(n) == [i \in 1..n |-> clearjob(NoJob)]

RECURSIVE maxjidFrom(_, _, _)
maxjidFrom(js, i, max) ==
    IF i > Capacity(js) THEN max
    ELSE maxjidFrom(js, i + 1, IF js[i].jid > max THEN js[i].jid ELSE max)

maxjid(js) == maxjidFrom(js, 1, 0)

\* first slot (in scan order) satisfying P, 0 when there is none
FirstSlot(js, P(_)) ==
    IF \E i \in Slots(js) : P(js[i])
    THEN CHOOSE i \in Slots(js) : P(js[i]) /\ \A k \in 1..(i - 1) : ~P(js[k])
    ELSE 0

\* if (nextjid > MAXJOBS) nextjid = 1 (lines 581-583)
wrapjid(js, nj) == IF nj > Capacity(js) THEN 1 ELSE nj

addjob(js, nj, pid, state, cmdline) ==
    LET free(j) == j.pid = 0
        i == FirstSlot(js, free)
    IN  IF pid < 1 THEN [jobs |-> js, nextjid |-> nj, ok |-> FALSE, msg |-> ""]
        ELSE IF i = 0
        THEN [jobs |-> js, nextjid |-> nj, ok |-> FALSE,
              msg |-> "Tried to create too many jobs"]
        ELSE [jobs |-> [js EXCEPT ![i] = [pid |-> pid, jid |-> nj,
                                          state |-> state, cmdline |-> cmdline]],
              nextjid |-> wrapjid(js, nj + 1),
              ok |-> TRUE, msg |-> ""]

deletejob(js, nj, pid) ==
    LET has(j) == j.pid = pid
        i == FirstSlot(js, has)
    IN  IF pid < 1 \/ i = 0 THEN [jobs |-> js, nextjid |-> nj, ok |-> FALSE]
        ELSE LET cleared == [js EXCEPT ![i] = clearjob(js[i])]
             IN  [jobs |-> cleared, nextjid |-> maxjid(cleared) + 1, ok |-> TRUE]

\* fgpid finding no job
fgpidNone(js) == 0

\* fgpid scanning for the wrong state
fgpidOfBG(js) ==
    LET isbg(j) == j.state = BG
        i == FirstSlot(js, isbg)
    IN  IF i = 0 THEN 0 ELSE js[i].pid

fgpid(js) ==
    LET isfg(j) == j.state = FG
        i == FirstSlot(js, isfg)
    IN  IF i = 0 THEN 0 ELSE js[i].pid

\* the lookups return a slot number, 0 standing for NULL
getjobpid(js, pid) ==
    LET has(j) == j.pid = pid
    IN  IF pid < 1 THEN 0 ELSE FirstSlot(js, has)

getjobjid(js, jid) ==
    LET has(j) == j.jid = jid
    IN  IF jid < 1 THEN 0 ELSE FirstSlot(js, has)

pid2jid(js, pid) ==
    LET has(j) == j.pid = pid
        i == FirstSlot(js, has)
    IN  IF pid < 1 \/ i = 0 THEN 0 ELSE js[i].jid

\* ----------------------------------------------------------------- output
Line(msg, jid, pid, sig, cmdline) ==
    [msg |-> msg, jid |-> jid, pid |-> pid, sig |-> sig, cmdline |-> cmdline]

Diag(msg) == <<Line(msg, 0, 0, 0, "")>>

\* an announcement with the state word of a listing line
listjobRunning(job) == <<Line("Running", job.jid, job.pid, 0, job.cmdline)>>

\* printf("[%d] (%d) %s", job->jid, job->pid, job->cmdline): no state word
listjob(job) == <<Line("", job.jid, job.pid, 0, job.cmdline)>>

NoSig == <<0, "">>

\* ------------------------------------------------ argument of bg and fg
Digits == <<"0", "1", "2", "3", "4", "5", "6", "7", "8", "9">>
ArgChars == {"%", "x", "1", "2"}

\* argv[1] of a bg / fg command; <<>> stands for a missing argument (NULL)
RECURSIVE SeqsUpTo(_)
SeqsUpTo(n) ==
    IF n = 0 THEN {<<>>}
    ELSE LET shorter == SeqsUpTo(n - 1)
         IN  shorter \cup {Append(s, c) : s \in shorter, c \in ArgChars}

Args == SeqsUpTo(MaxArgLen)

isdigit(c) == \E d \in 1..10 : Digits[d] = c

DigitVal(c) == (CHOOSE d \in 1..10 : Digits[d] = c) - 1

isnumber(num) == \A i \in 1..Len(num) : isdigit(num[i])

\* atoi of a string of digits
RECURSIVE atoi(_)
atoi(num) ==
    IF Len(num) = 0 THEN 0
    ELSE 10 * atoi(SubSeq(num, 1, Len(num) - 1)) + DigitVal(num[Len(num)])

\* ------------------------------------------------------------ the state
NoLocals == [pid |-> 0, bg |-> FALSE, isbg |-> FALSE, job |-> 0, prev |-> {},
             lines |-> <<>>]

Init ==
    /\ jobs = initjobs(MAXJOBS)
    /\ nextjid = 1
    /\ pc = "prompt"
    /\ m = NoLocals
    /\ mask = {}
    /\ pending = {}
    /\ stack = <<>>
    /\ proc = [p \in Pids |-> "none"]
    /\ nsig = 0
    /\ out = <<>>
    /\ sent = NoSig

Alive == pc \notin {"exit", "segv"}
MainRuns == Alive /\ stack = <<>>

Quiet == out' = <<>> /\ sent' = NoSig

\* kill(-pgid, sig) fails with ESRCH when the process group is gone, i.e.
\* its leader has been reaped; pgid 0 is the shell's own group
KillFails(pgid) == pgid > 0 /\ proc[pgid] \in {"none", "reaped"}

\* effect on the children of a signal sent to process group pgid, when the
\* group leader takes the signal's default action: SIGCONT resumes a stopped
\* child, SIGTSTP stops a running one, SIGINT terminates a running one
Signalled(pr, pgid, sig) ==
    IF pgid < 1 THEN pr
    ELSE IF sig = "CONT" /\ pr[pgid] \in {"stopnew", "stopped"}
    THEN [pr EXCEPT ![pgid] = "run"]
    ELSE IF sig = "TSTP" /\ pr[pgid] = "run"
    THEN [pr EXCEPT ![pgid] = "stopnew"]
    ELSE IF sig = "INT" /\ pr[pgid] = "run"
    THEN [pr EXCEPT ![pgid] = "zsig"]
    ELSE pr

\* the kernel posts SIGCHLD when a child stops or terminates
Posted(pr, pr2, pend) ==
    IF \E p \in Pids : pr2[p] # pr[p] /\ pr2[p] \in {"stopnew", "zexit", "zsig"}
    THEN pend \cup {"CHLD"}
    ELSE pend

cmdlineOf(bg) == IF bg THEN "cmd &" ELSE "cmd"

\* ---------------------------------------------------------------- eval
\* eval of an external command: fork (line 202)
EvalFork(bg) ==
    /\ MainRuns /\ pc = "prompt"
    /\ \E p \in Pids :
        /\ proc[p] = "none"
        /\ \A q \in 1..(p - 1) : proc[q] # "none"
        /\ proc' = [proc EXCEPT ![p] = "run"]
        /\ m' = [NoLocals EXCEPT !.pid = p, !.bg = bg]
    /\ pc' = "forked"
    /\ Quiet
    /\ UNCHANGED <<jobs, nextjid, mask, pending, stack, nsig>>

\* fork fails: unix_error, exit(1) (lines 204-207)
EvalForkFails ==
    /\ MainRuns /\ pc = "prompt"
    /\ pc' = "exit"
    /\ out' = Diag("fork failed.")
    /\ sent' = NoSig
    /\ UNCHANGED <<jobs, nextjid, m, mask, pending, stack, proc, nsig>>

\* Sigprocmask(SIG_BLOCK, &mask_sigchld, &prev_one) (line 210)
EvalBlockChld ==
    /\ MainRuns /\ pc = "forked"
    /\ m' = [m EXCEPT !.prev = mask]
    /\ mask' = mask \cup {"CHLD"}
    /\ pc' = "blocked"
    /\ Quiet
    /\ UNCHANGED <<jobs, nextjid, pending, stack, proc, nsig>>

\* the parent's critical section (lines 230-235): all signals are blocked
\* from the addjob to the restore of prev_one, so it is one step.  In the
\* background case listjob dereferences what getjobpid returns; when the
\* table was full that is NULL and the shell dies of SIGSEGV.
EvalAddJob ==
    /\ MainRuns /\ pc = "blocked"
    /\ LET r == addjob(jobs, nextjid, m.pid, IF m.bg THEN BG ELSE FG,
                       cmdlineOf(m.bg))
           full == IF r.ok THEN <<>> ELSE Diag(r.msg)
           job == getjobpid(r.jobs, m.pid)
       IN  /\ jobs' = r.jobs
           /\ nextjid' = r.nextjid
           /\ IF m.bg /\ job = 0
              THEN /\ pc' = "segv"
                   /\ out' = full
                   /\ mask' = mask
              ELSE /\ pc' = IF m.bg THEN "prompt" ELSE "waitfg"
                   /\ out' = IF m.bg THEN full \o listjob(r.jobs[job]) ELSE full
                   /\ mask' = m.prev
           /\ m' = IF m.bg /\ job # 0 THEN NoLocals ELSE m
    /\ sent' = NoSig
    /\ UNCHANGED <<pending, stack, proc, nsig>>

\* waitfg (lines 412-422): sleep(1) ...
WaitfgSleep ==
    /\ MainRuns /\ pc = "waitfg"
    /\ pc' = "waitfg_check"
    /\ Quiet
    /\ UNCHANGED <<jobs, nextjid, m, mask, pending, stack, proc, nsig>>

\* ... then leave the loop when fgpid(jobs) != pid
WaitfgCheck ==
    /\ MainRuns /\ pc = "waitfg_check"
    /\ IF fgpid(jobs) # m.pid
       THEN pc' = "prompt" /\ m' = NoLocals
       ELSE pc' = "waitfg" /\ UNCHANGED m
    /\ Quiet
    /\ UNCHANGED <<jobs, nextjid, mask, pending, stack, proc, nsig>>

\* ------------------------------------------------------------- builtins
Quit ==
    /\ MainRuns /\ pc = "prompt"
    /\ pc' = "exit"
    /\ Quiet
    /\ UNCHANGED <<jobs, nextjid, m, mask, pending, stack, proc, nsig>>

stateName(state) == IF state = BG THEN "Running" ELSE "Stopped"

RECURSIVE listbgjobsFrom(_, _)
listbgjobsFrom(js, i) ==
    IF i > Capacity(js) THEN <<>>
    ELSE (IF js[i].pid # 0 /\ js[i].state \in {BG, ST}
          THEN <<Line(stateName(js[i].state), js[i].jid, js[i].pid, 0,
                      js[i].cmdline)>>
          ELSE <<>>) \o listbgjobsFrom(js, i + 1)

listbgjobs(js) == listbgjobsFrom(js, 1)

\* The jobs built-in (lines 330-333) calls listbgjobs with no signal
\* blocked, so a handler can run between any two reads of a slot.  The scan
\* is at slot m.job; it reads pid and state (JobsTest), then jid and pid for
\* the first printf (JobsHead), then cmdline for the last one (JobsText).
\* The text reaches the terminal when the command is done.
JobsNext(i, lines) ==
    IF i + 1 > Capacity(jobs)
    THEN pc' = "prompt" /\ m' = NoLocals /\ out' = lines
    ELSE /\ pc' = "jobs_test"
         /\ m' = [m EXCEPT !.job = i + 1, !.lines = lines]
         /\ out' = <<>>

\* if (jobs[i].pid != 0) switch (jobs[i].state) (lines 714-715)
JobsTest ==
    /\ MainRuns /\ pc \in {"prompt", "jobs_test"}
    /\ LET i == IF pc = "prompt" THEN 1 ELSE m.job
       IN  IF jobs[i].pid # 0 /\ jobs[i].state \in {BG, ST}
           THEN /\ pc' = IF jobs[i].state = BG THEN "jobs_head_bg"
                                               ELSE "jobs_head_st"
                /\ m' = [m EXCEPT !.job = i]
                /\ out' = <<>>
           ELSE JobsNext(i, m.lines)
    /\ sent' = NoSig
    /\ UNCHANGED <<jobs, nextjid, mask, pending, stack, proc, nsig>>

\* printf("[%d] (%d) ", jobs[i].jid, jobs[i].pid); printf("Running ") or
\* printf("Stopped ") (lines 717-718, 722-723)
JobsHead ==
    /\ MainRuns /\ pc \in {"jobs_head_bg", "jobs_head_st"}
    /\ m' = [m EXCEPT !.lines = Append(m.lines,
                Line(stateName(IF pc = "jobs_head_bg" THEN BG ELSE ST),
                     jobs[m.job].jid, jobs[m.job].pid, 0, ""))]
    /\ pc' = "jobs_text"
    /\ Quiet
    /\ UNCHANGED <<jobs, nextjid, mask, pending, stack, proc, nsig>>

\* printf("%s", jobs[i].cmdline) (lines 719, 724)
JobsText ==
    /\ MainRuns /\ pc = "jobs_text"
    /\ JobsNext(m.job, [m.lines EXCEPT ![Len(m.lines)].cmdline =
                                          jobs[m.job].cmdline])
    /\ sent' = NoSig
    /\ UNCHANGED <<jobs, nextjid, mask, pending, stack, proc, nsig>>

cmdName(isbg) == IF isbg THEN "bg" ELSE "fg"

\* validation of the target (lines 348-376): the diagnostic, "" when the
\* target resolves to a job
bgfgDiag(js, isbg, arg) ==
    IF arg = <<>> THEN cmdName(isbg) \o " command requires PID or %jobid argument"
    ELSE IF arg[1] = "%"
    THEN IF ~isnumber(Tail(arg))
         THEN cmdName(isbg) \o ": argument must be a PID or %jobid"
         ELSE IF getjobjid(js, atoi(Tail(arg))) = 0 THEN "no such job" ELSE ""
    ELSE IF ~isnumber(arg)
         THEN cmdName(isbg) \o ": argument must be a PID or %jobid"
         ELSE IF getjobpid(js, atoi(arg)) = 0 THEN "no such process" ELSE ""

\* the slot the target resolves to
bgfgTarget(js, arg) ==
    IF arg[1] = "%" THEN getjobjid(js, atoi(Tail(arg)))
    ELSE getjobpid(js, atoi(arg))

\* do_bgfg up to the lookup of the job (lines 346-376)
DoBgfgLookup(isbg, arg) ==
    /\ MainRuns /\ pc = "prompt"
    /\ LET d == bgfgDiag(jobs, isbg, arg)
       IN  IF d # ""
           THEN /\ out' = Diag(d)
                /\ UNCHANGED <<pc, m>>
           ELSE /\ out' = <<>>
                /\ m' = [NoLocals EXCEPT !.isbg = isbg,
                                         !.job = bgfgTarget(jobs, arg)]
                /\ pc' = "bgfg_check"
    /\ sent' = NoSig
    /\ UNCHANGED <<jobs, nextjid, mask, pending, stack, proc, nsig>>

\* the state preconditions without the check of bg
bgfgStateDiagNoBg(isbg, state) ==
    IF ~isbg /\ ~(state = ST \/ state = BG)
    THEN "fg error - Job is not STOPPED or in BACKGROUND."
    ELSE ""

\* the state preconditions (lines 381-389): the diagnostic, "" when met
bgfgStateDiag(isbg, state) ==
    IF isbg /\ state # ST THEN "bg error - Job is not STOPPED."
    ELSE IF ~isbg /\ ~(state = ST \/ state = BG)
    THEN "fg error - Job is not STOPPED or in BACKGROUND."
    ELSE ""

DoBgfgCheck ==
    /\ MainRuns /\ pc = "bgfg_check"
    /\ LET d == bgfgStateDiag(m.isbg, jobs[m.job].state)
       IN  IF d # ""
           THEN /\ out' = Diag(d)
                /\ pc' = "prompt"
                /\ m' = NoLocals
           ELSE /\ out' = <<>>
                /\ pc' = "bgfg_block"
                /\ UNCHANGED m
    /\ sent' = NoSig
    /\ UNCHANGED <<jobs, nextjid, mask, pending, stack, proc, nsig>>

\* Sigprocmask(SIG_BLOCK, &mask_sigchld, &prev_one) (line 392)
DoBgfgBlock ==
    /\ MainRuns /\ pc = "bgfg_block"
    /\ m' = [m EXCEPT !.prev = mask]
    /\ mask' = mask \cup {"CHLD"}
    /\ pc' = "bgfg_kill"
    /\ Quiet
    /\ UNCHANGED <<jobs, nextjid, pending, stack, proc, nsig>>

\* Kill(-(job->pid), SIGCONT) (line 393); job->pid is read here
DoBgfgKill ==
    /\ MainRuns /\ pc = "bgfg_kill"
    /\ LET pgid == jobs[m.job].pid
       IN  IF KillFails(pgid)
           THEN /\ pc' = "exit"
                /\ out' = Diag("kill failed")
                /\ sent' = NoSig
                /\ UNCHANGED <<proc, pending>>
           ELSE /\ pc' = "bgfg_set"
                /\ out' = <<>>
                /\ sent' = <<pgid, "CONT">>
                /\ proc' = Signalled(proc, pgid, "CONT")
                /\ UNCHANGED pending
    /\ UNCHANGED <<jobs, nextjid, m, mask, stack, nsig>>

\* the new states of bg and fg swapped
bgfgStateSwapped(isbg) == IF isbg THEN FG ELSE BG

\* the new state of the target (lines 394-399)
bgfgState(isbg) == IF isbg THEN BG ELSE FG

DoBgfgSet ==
    /\ MainRuns /\ pc = "bgfg_set"
    /\ out' = IF m.isbg THEN listjob(jobs[m.job]) ELSE <<>>
    /\ jobs' = [jobs EXCEPT ![m.job].state = bgfgState(m.isbg)]
    /\ pc' = "bgfg_unblock"
    /\ sent' = NoSig
    /\ UNCHANGED <<nextjid, m, mask, pending, stack, proc, nsig>>

\* Sigprocmask(SIG_SETMASK, &prev_one, NULL) (line 400)
DoBgfgUnblock ==
    /\ MainRuns /\ pc = "bgfg_unblock"
    /\ mask' = m.prev
    /\ IF m.isbg
       THEN pc' = "prompt" /\ m' = NoLocals
       ELSE pc' = "bgfg_wait" /\ UNCHANGED m
    /\ Quiet
    /\ UNCHANGED <<jobs, nextjid, pending, stack, proc, nsig>>

\* waitfg(job->pid) (line 403): job->pid is read after the unblock
DoBgfgWait ==
    /\ MainRuns /\ pc = "bgfg_wait"
    /\ m' = [m EXCEPT !.pid = jobs[m.job].pid]
    /\ pc' = "waitfg"
    /\ Quiet
    /\ UNCHANGED <<jobs, nextjid, mask, pending, stack, proc, nsig>>

\* ------------------------------------------------------ signal delivery
Frame(sig, saved) ==
    [sig |-> sig, pc |-> "start", pid |-> 0, status |-> "", saved |-> saved]

Top == stack[Len(stack)]
InHandler(sig) == Alive /\ stack # <<>> /\ Top.sig = sig

SetTop(f) == [stack EXCEPT ![Len(stack)] = f]
Pop == SubSeq(stack, 1, Len(stack) - 1)

\* a pending, unblocked signal interrupts whatever is running; the handlers
\* are installed with an empty sa_mask (Signal, lines 792-805), so only the
\* signal itself is added to the mask for the handler's duration
Deliver(sig) ==
    /\ Alive
    /\ sig \in pending /\ sig \notin mask
    /\ stack' = Append(stack, Frame(sig, mask))
    /\ mask' = mask \cup {sig}
    /\ pending' = pending \ {sig}
    /\ Quiet
    /\ UNCHANGED <<jobs, nextjid, pc, m, proc, nsig>>

\* return from the innermost handler: the mask at its entry is restored
Return ==
    /\ stack' = Pop
    /\ mask' = Top.saved

\* ------------------------------------------------------ sigchld_handler
Waitable == {"zexit", "zsig", "stopnew"}

\* status reported by waitpid(-1, &status, WNOHANG | WUNTRACED)
waitStatus(st) ==
    IF st = "zexit" THEN "exited"
    ELSE IF st = "zsig" THEN "signaled" ELSE "stopped"

\* where the handler goes with a status (lines 446-461)
chldBranch(status) ==
    IF status = "exited" THEN "del_exit"
    ELSE IF status = "stopped" THEN "print_stop" ELSE "print_sig"

\* the loop condition (line 443): reap any child that changed state, or
\* leave the handler when there is none
ChldWaitpid ==
    /\ InHandler("CHLD") /\ Top.pc = "start"
    /\ IF \E p \in Pids : proc[p] \in Waitable
       THEN \E p \in Pids :
              /\ proc[p] \in Waitable
              /\ proc' = [proc EXCEPT ![p] =
                            IF proc[p] = "stopnew" THEN "stopped" ELSE "reaped"]
              /\ stack' = SetTop([Top EXCEPT !.pid = p,
                                   !.status = waitStatus(proc[p]),
                                   !.pc = chldBranch(waitStatus(proc[p]))])
              /\ UNCHANGED mask
       ELSE Return /\ UNCHANGED proc
    /\ Quiet
    /\ UNCHANGED <<jobs, nextjid, pc, m, pending, nsig>>

\* deletejob under mask_all (lines 447-449 and 458-460)
ChldDelete ==
    /\ InHandler("CHLD") /\ Top.pc \in {"del_exit", "del_sig"}
    /\ LET r == deletejob(jobs, nextjid, Top.pid)
       IN  jobs' = r.jobs /\ nextjid' = r.nextjid
    /\ stack' = SetTop([Top EXCEPT !.pc = "start"])
    /\ Quiet
    /\ UNCHANGED <<pc, m, mask, pending, proc, nsig>>

\* a stop notification that frees the job's slot
chldStoppedDeletes(js, pid) == deletejob(js, 0, pid).jobs

\* a stop notification that marks the job ST
chldStoppedMarks(js, pid) ==
    IF getjobpid(js, pid) = 0 THEN js
    ELSE [js EXCEPT ![getjobpid(js, pid)].state = ST]

\* table after a stop notification (lines 452-454): the handler only prints
chldStopped(js, pid) == js

\* "Job [%d] (%d) stopped by signal %d" (line 453)
ChldPrintStop ==
    /\ InHandler("CHLD") /\ Top.pc = "print_stop"
    /\ out' = <<Line("stopped by signal", pid2jid(jobs, Top.pid), Top.pid,
                     "WSTOPSIG(status)", "")>>
    /\ jobs' = chldStopped(jobs, Top.pid)
    /\ stack' = SetTop([Top EXCEPT !.pc = "start"])
    /\ sent' = NoSig
    /\ UNCHANGED <<nextjid, pc, m, mask, pending, proc, nsig>>

\* "Job [%d] (%d) terminated by signal %d" (line 457)
ChldPrintSig ==
    /\ InHandler("CHLD") /\ Top.pc = "print_sig"
    /\ out' = <<Line("terminated by signal", pid2jid(jobs, Top.pid), Top.pid,
                     "WTERMSIG(status)", "")>>
    /\ stack' = SetTop([Top EXCEPT !.pc = "del_sig"])
    /\ sent' = NoSig
    /\ UNCHANGED <<jobs, nextjid, pc, m, mask, pending, proc, nsig>>

\* ------------------------------------- sigint_handler, sigtstp_handler
\* pid = fgpid(jobs); if (pid == 0) return (lines 476-480, 495-502)
KeyFgpid(sig) ==
    /\ InHandler(sig) /\ Top.pc = "start"
    /\ LET pid == fgpid(jobs)
       IN  IF pid = 0
           THEN Return
           ELSE /\ stack' = SetTop([Top EXCEPT !.pid = pid, !.pc = "kill"])
                /\ UNCHANGED mask
    /\ Quiet
    /\ UNCHANGED <<jobs, nextjid, pc, m, pending, proc, nsig>>

\* Kill(-pid, sig) (lines 482, 504); sigint_handler returns after it.  The
\* child takes the default action of the signal or handles it itself.
KeyKill(sig) ==
    /\ InHandler(sig) /\ Top.pc = "kill"
    /\ IF KillFails(Top.pid)
       THEN /\ pc' = "exit"
            /\ out' = Diag("kill failed")
            /\ sent' = NoSig
            /\ UNCHANGED <<stack, mask, proc, pending>>
       ELSE /\ out' = <<>>
            /\ sent' = <<Top.pid, sig>>
            /\ UNCHANGED pc
            /\ \E pr2 \in {proc, Signalled(proc, Top.pid, sig)} :
                 /\ proc' = pr2
                 /\ pending' = Posted(proc, pr2, pending)
            /\ IF sig = "INT"
               THEN Return
               ELSE /\ stack' = SetTop([Top EXCEPT !.pc = "mark"])
                    /\ UNCHANGED mask
    /\ UNCHANGED <<jobs, nextjid, m, nsig>>

\* fgjob = getjobpid(jobs, pid); fgjob->state = ST, under mask_all
\* (lines 507-510); a NULL fgjob is dereferenced: SIGSEGV
TstpMark ==
    /\ InHandler("TSTP") /\ Top.pc = "mark"
    /\ LET fgjob == getjobpid(jobs, Top.pid)
       IN  IF fgjob = 0
           THEN /\ pc' = "segv"
                /\ UNCHANGED <<jobs, stack, mask>>
           ELSE /\ jobs' = [jobs EXCEPT ![fgjob].state = ST]
                /\ Return
                /\ UNCHANGED pc
    /\ Quiet
    /\ UNCHANGED <<nextjid, m, pending, proc, nsig>>

\* ---------------------------------------------------------- environment
\* ctrl-c / ctrl-z typed at the keyboard, at most n signals in a run
KeyWithin(sig, n) ==
    /\ Alive
    /\ sig \in {"INT", "TSTP"} /\ sig \notin pending
    /\ nsig < n
    /\ nsig' = nsig + 1
    /\ pending' = pending \cup {sig}
    /\ Quiet
    /\ UNCHANGED <<jobs, nextjid, pc, m, mask, stack, proc>>

Key(sig) == KeyWithin(sig, MaxEnvSigs)

\* a child terminates or stops; the kernel posts SIGCHLD to the shell
ChildChange(p, from, to) ==
    /\ Alive
    /\ proc[p] \in from
    /\ proc' = [proc EXCEPT ![p] = to]
    /\ pending' = pending \cup {"CHLD"}
    /\ Quiet
    /\ UNCHANGED <<jobs, nextjid, pc, m, mask, stack>>

\* the program run by the child ends (or execve failed and the child exits)
ChildExits(p) == ChildChange(p, {"run"}, "zexit") /\ UNCHANGED nsig

\* another process sends the child a signal that kills it / that stops it
ChildKilled(p) ==
    /\ nsig < MaxEnvSigs
    /\ nsig' = nsig + 1
    /\ ChildChange(p, {"run", "stopnew", "stopped"}, "zsig")

ChildStops(p) ==
    /\ nsig < MaxEnvSigs
    /\ nsig' = nsig + 1
    /\ ChildChange(p, {"run"}, "stopnew")

\* --------------------------------------------------------- specification
Main ==
    \/ \E bg \in BOOLEAN : EvalFork(bg)
    \/ EvalForkFails
    \/ EvalBlockChld
    \/ EvalAddJob
    \/ WaitfgSleep
    \/ WaitfgCheck
    \/ Quit
    \/ JobsTest
    \/ JobsHead
    \/ JobsText
    \/ \E isbg \in BOOLEAN, arg \in Args : DoBgfgLookup(isbg, arg)
    \/ DoBgfgCheck
    \/ DoBgfgBlock
    \/ DoBgfgKill
    \/ DoBgfgSet
    \/ DoBgfgUnblock
    \/ DoBgfgWait

Handlers ==
    \/ \E sig \in Sigs : Deliver(sig)
    \/ ChldWaitpid
    \/ ChldDelete
    \/ ChldPrintStop
    \/ ChldPrintSig
    \/ \E sig \in {"INT", "TSTP"} : KeyFgpid(sig)
    \/ \E sig \in {"INT", "TSTP"} : KeyKill(sig)
    \/ TstpMark

Environment ==
    \/ \E sig \in {"INT", "TSTP"} : Key(sig)
    \/ \E p \in Pids : ChildExits(p)
    \/ \E p \in Pids : ChildKilled(p)
    \/ \E p \in Pids : ChildStops(p)

Next == Main \/ Handlers \/ Environment

Spec == Init /\ [][Next]_vars

\* The main line keeps running while no handler is active (waitfg polls
\* once a second), a running handler runs to its end, and a pending
\* unblocked signal is delivered.
FairSpec == Spec /\ WF_vars(Main) /\ WF_vars(Handlers)

\* ---------------------------------------------- the job list on its own
\* Any sequence of addjob and deletejob calls on a list of TableJobs slots,
\* as eval and sigchld_handler make them for background commands: a pid is
\* added when no live job has it and deleted when a live job has it.
InitTable ==
    /\ jobs = initjobs(TableJobs)
    /\ nextjid = 1
    /\ pc = "prompt"
    /\ m = NoLocals
    /\ mask = {}
    /\ pending = {}
    /\ stack = <<>>
    /\ proc = [p \in Pids |-> "none"]
    /\ nsig = 0
    /\ out = <<>>
    /\ sent = NoSig

TableAdd(pid, state) ==
    /\ getjobpid(jobs, pid) = 0
    /\ nextjid <= MaxJid
    /\ LET r == addjob(jobs, nextjid, pid, state, cmdlineOf(state = BG))
       IN  /\ jobs' = r.jobs
           /\ nextjid' = r.nextjid
           /\ out' = IF r.ok THEN <<>> ELSE Diag(r.msg)
    /\ UNCHANGED <<pc, m, mask, pending, stack, proc, nsig, sent>>

TableDelete(pid) ==
    /\ getjobpid(jobs, pid) # 0
    /\ LET r == deletejob(jobs, nextjid, pid)
       IN  jobs' = r.jobs /\ nextjid' = r.nextjid
    /\ out' = <<>>
    /\ UNCHANGED <<pc, m, mask, pending, stack, proc, nsig, sent>>

NextTable ==
    \/ \E pid \in 1..TablePids : TableAdd(pid, BG)
    \/ \E pid \in 1..TablePids : TableDelete(pid)

SpecTable == InitTable /\ [][NextTable]_vars

\* ------------------------------------------------- two keys, one command
\* The shell after MaxProcs - 1 external commands have run to their end and
\* have been reaped: one more command can be started.  The user types up to
\* MaxKeys keys; no other process signals the children.
InitKeys ==
    /\ jobs = initjobs(MAXJOBS)
    /\ nextjid = 1
    /\ pc = "prompt"
    /\ m = NoLocals
    /\ mask = {}
    /\ pending = {}
    /\ stack = <<>>
    /\ proc = [p \in Pids |-> IF p < MaxProcs THEN "reaped" ELSE "none"]
    /\ nsig = 0
    /\ out = <<>>
    /\ sent = NoSig

EnvironmentKeys ==
    \/ \E sig \in {"INT", "TSTP"} : KeyWithin(sig, MaxKeys)
    \/ \E p \in Pids : ChildExits(p)

NextKeys == Main \/ Handlers \/ EnvironmentKeys

SpecKeys == InitKeys /\ [][NextKeys]_vars

TypeOK ==
    /\ nextjid \in Nat
    /\ mask \subseteq Sigs
    /\ pending \subseteq Sigs
    /\ Len(stack) <= 3

\* ================================================================ claims
FgSlots == {i \in Slots(jobs) : jobs[i].state = FG}
Live == {i \in Slots(jobs) : jobs[i].pid # 0}

\* C1: in every reachable state, under any interleaving of the main line
\* with the three handlers, at most one job has state FG.
C1_AtMostOneForeground == Cardinality(FgSlots) <= 1

\* C1 witness: a handler is running on top of a foreground wait while one
\* job is FG and another job is live in the table
C1_Witness ==
    /\ pc = "waitfg" /\ stack # <<>>
    /\ \E i \in FgSlots : jobs[i].pid # 0
    /\ \E k \in Live : jobs[k].state # FG

\* C2: after any sequence of addjob and deletejob calls every live job has
\* a job id >= 1 and no two live jobs have the same job id.
C2_JidsPositiveUnique ==
    /\ \A i \in Live : jobs[i].jid >= 1
    /\ \A i, k \in Live : i # k => jobs[i].jid # jobs[k].jid

\* eval is running the external command of child p in the foreground
FgCommandOf(p) ==
    /\ pc \in {"forked", "blocked", "waitfg", "waitfg_check"}
    /\ m.job = 0 /\ ~m.bg /\ m.pid = p

\* C3: when an external command runs in the foreground and its child has
\* exited or been killed, however early after the fork, the job is
\* eventually out of the table and eval is back in the read loop.
C3_ForegroundWaitEnds ==
    \A p \in Pids :
        (FgCommandOf(p) /\ proc[p] \in {"zexit", "zsig", "reaped"})
            ~> (pc = "prompt" /\ getjobpid(jobs, p) = 0)

\* C4: a live slot becomes free only in a step of the child-status handler
\* that deletes the job of the pid it has just reaped with an exited or
\* signal-terminated status.
C4_OnlyReapFrees ==
    [][\A i \in Slots(jobs) :
          (jobs[i].pid # 0 /\ jobs'[i].pid = 0)
              => /\ InHandler("CHLD")
                 /\ Top.pc \in {"del_exit", "del_sig"}
                 /\ Top.status \in {"exited", "signaled"}
                 /\ Top.pid = jobs[i].pid
                 /\ proc[Top.pid] = "reaped"]_vars

\* C4 witness: the handler, running on top of eval's foreground wait for
\* the first child, has reaped that child and its job is out of the table
C4_Witness ==
    /\ pc \in {"waitfg", "waitfg_check"} /\ m.job = 0 /\ m.pid = 1
    /\ InHandler("CHLD") /\ Top.pc = "start"
    /\ Top.pid = 1 /\ Top.status \in {"exited", "signaled"}
    /\ getjobpid(jobs, 1) = 0

\* the step in which sigchld_handler deals with a stop notification for
\* the job in slot i
StopObserved(i) ==
    /\ InHandler("CHLD") /\ Top.pc = "print_stop"
    /\ Len(stack') = Len(stack) /\ stack'[Len(stack)].pc = "start"
    /\ jobs[i].pid = Top.pid

AllDigits(str) == \A k \in 1..Len(str) : str[k] \in {"0", "1", "2", "3", "4",
                                                     "5", "6", "7", "8", "9"}
BadTarget(arg) ==
    \/ arg = <<>>
    \/ /\ arg # <<>> /\ arg[1] = "%"
       /\ \/ ~AllDigits(Tail(arg))
          \/ ~\E i \in Slots(jobs) :
                jobs[i].jid >= 1 /\ jobs[i].jid = atoi(Tail(arg))
    \/ /\ arg # <<>> /\ arg[1] # "%"
       /\ \/ ~AllDigits(arg)
          \/ ~\E i \in Slots(jobs) :
                jobs[i].pid >= 1 /\ jobs[i].pid = atoi(arg)

BadState(isbg, state) ==
    \/ isbg /\ state # ST
    \/ ~isbg /\ state \notin {ST, BG}

Rejected ==
    /\ out' # <<>>
    /\ sent' = NoSig
    /\ jobs' = jobs /\ nextjid' = nextjid /\ proc' = proc
    /\ pc' = "prompt"

\* C6: a bg or fg command whose target fails validation, or whose target is
\* not in a state the command accepts, prints a diagnostic, sends no signal,
\* leaves the job table unchanged and returns to the read loop.
C6_BadBgfgRejected ==
    [][/\ \/ Rejected
          \/ pc # "prompt"
          \/ \A isbg \in BOOLEAN, arg \in Args :
                ~(BadTarget(arg) /\ DoBgfgLookup(isbg, arg))
       /\ (MainRuns /\ pc = "bgfg_check" /\ pc' # pc
             /\ BadState(m.isbg, jobs[m.job].state)) => Rejected]_vars

\* C6 witness: bg has just been refused on a live job that is not stopped
C6_Witness ==
    /\ pc = "prompt"
    /\ out = Diag("bg error - Job is not STOPPED.")
    /\ \E i \in Live : jobs[i].state = BG

\* C7: a bg / fg that has passed the validation sends SIGCONT to the process
\* group of its target job and sets that job's state to BG / FG; bg then
\* returns to the read loop, fg returns only when the job is not FG.
C7_BgfgResumes ==
    [][/\ (MainRuns /\ pc = "bgfg_kill" /\ pc' # pc)
             => /\ jobs[m.job].pid >= 1
                /\ sent' = <<jobs[m.job].pid, "CONT">>
                /\ pc' = "bgfg_set"
       /\ (MainRuns /\ pc = "bgfg_set" /\ pc' # pc)
             => /\ jobs'[m.job].pid >= 1
                /\ jobs'[m.job].state = IF m.isbg THEN BG ELSE FG
       /\ (MainRuns /\ pc = "bgfg_unblock" /\ pc' # pc /\ m.isbg)
             => pc' = "prompt"
       /\ (MainRuns /\ pc = "waitfg_check" /\ m.job # 0 /\ pc' = "prompt")
             => jobs[m.job].state # FG]_vars

TableFull == \A i \in Slots(jobs) : jobs[i].pid # 0

\* C8: an external command evaluated when the job table is full, in the
\* foreground or in the background, is reported with a diagnostic, leaves
\* the table unchanged and eval goes on (to the read loop, or to the
\* foreground wait that returns there).
C8_FullTableReported ==
    [][(MainRuns /\ pc = "blocked" /\ pc' # pc /\ TableFull)
          => /\ out' # <<>>
             /\ out'[1].msg = "Tried to create too many jobs"
             /\ jobs' = jobs
             /\ pc' \in {"prompt", "waitfg"}]_vars

\* C9: the next job id to allocate is the maximum live job id + 1, or 1
\* when that value would exceed the capacity of the table.
C9_NextJidIsMaxPlusOne ==
    nextjid = IF maxjid(jobs) + 1 > Capacity(jobs) THEN 1 ELSE maxjid(jobs) + 1

ChldStep(at) ==
    /\ InHandler("CHLD") /\ Top.pc \in at
    /\ Len(stack') = Len(stack) /\ stack'[Len(stack)].pc # Top.pc

\* C11: for every child that sigchld_handler reaps as exited or signaled the
\* job with that pid is in the table and is removed from it; the notice of a
\* signaled child carries the job id the job has in the table (never 0), its
\* pid and the signal waitpid reported; the handler returns only when no
\* status change is left to collect, and then it returns without waiting.
C11_ReapRemovesAndNames ==
    [][/\ ChldStep({"print_sig"})
             => /\ out' # <<>>
                /\ out'[1].jid >= 1
                /\ \E i \in Live : /\ jobs[i].pid = Top.pid
                                   /\ jobs[i].jid = out'[1].jid
                /\ out'[1].pid = Top.pid
                /\ out'[1].sig = "WTERMSIG(status)"
       /\ ChldStep({"del_exit", "del_sig"})
             => /\ getjobpid(jobs, Top.pid) # 0
                /\ getjobpid(jobs', Top.pid) = 0
       /\ (InHandler("CHLD") /\ Top.pc = "start" /\ Len(stack') < Len(stack))
             => \A p \in Pids : proc[p] \notin Waitable]_vars

\* a step of the handler of sig that is innermost
HandlerStep(sig) ==
    /\ InHandler(sig)
    /\ \/ Len(stack') < Len(stack)
       \/ Len(stack') = Len(stack) /\ stack'[Len(stack)].pc # Top.pc
       \/ pc' # pc

\* C12: sigint_handler sends SIGINT only to the process group of the job
\* that is FG when the signal is sent, and sends nothing when no job is FG
\* at its lookup; a job that is BG or ST never gets a relayed keyboard
\* signal; the handler leaves the job table unchanged.
C12_IntOnlyToForeground ==
    [][/\ (InHandler("INT") /\ sent' # NoSig)
             => /\ sent'[2] = "INT"
                /\ \E i \in Live : jobs[i].pid = sent'[1] /\ jobs[i].state = FG
       /\ (HandlerStep("INT") /\ Top.pc = "start" /\ FgSlots = {})
             => sent' = NoSig /\ Len(stack') < Len(stack)
       /\ \A i \in Live :
             (sent' # NoSig /\ sent'[2] \in {"INT", "TSTP"}
                /\ sent'[1] = jobs[i].pid) => jobs[i].state \notin {BG, ST}
       /\ HandlerStep("INT") => jobs' = jobs /\ nextjid' = nextjid]_vars

\* C13: when sigtstp_handler runs while a job is FG it sends SIGTSTP to that
\* job's process group and returns with that job in state ST, pid and job
\* id unchanged, and no job FG, so that waitfg leaves its loop; when no job
\* is FG it sends nothing and leaves the table unchanged.
C13_StopMarksForeground ==
    [][/\ (HandlerStep("TSTP") /\ Top.pc = "start" /\ FgSlots = {})
             => /\ sent' = NoSig /\ jobs' = jobs
                /\ Len(stack') < Len(stack)
       /\ (HandlerStep("TSTP") /\ Top.pc = "kill")
             => /\ sent' = <<Top.pid, "TSTP">>
                /\ \E i \in FgSlots : jobs[i].pid = Top.pid
       /\ (HandlerStep("TSTP") /\ Top.pc = "mark")
             => /\ Len(stack') < Len(stack)
                /\ \E i \in Live : /\ jobs[i].pid = Top.pid
                                   /\ jobs'[i] = [jobs[i] EXCEPT !.state = ST]
                /\ \A i \in Slots(jobs) : jobs'[i].state # FG
       /\ (MainRuns /\ pc = "waitfg_check" /\ pc' # pc /\ FgSlots = {})
             => pc' = "prompt"]_vars

\* a step of the jobs built-in, and the step that ends it
JobsStep ==
    /\ MainRuns
    /\ \/ pc \in {"jobs_test", "jobs_head_bg", "jobs_head_st", "jobs_text"}
       \/ pc = "prompt" /\ pc' \in {"jobs_test", "jobs_head_bg", "jobs_head_st"}
    /\ <<pc, m>>' # <<pc, m>>

JobsDone == JobsStep /\ pc' = "prompt"

\* C14: the jobs built-in prints exactly one line for each live job that is
\* BG or ST, carrying its job id, pid, state word (Running for BG, Stopped
\* for ST) and command text; every line it prints is such a line (job id
\* and pid of a job, its command text), none is for an FG job or a free
\* slot; the command leaves the table unchanged.
C14_JobsListsBackground ==
    [][/\ JobsStep => jobs' = jobs /\ nextjid' = nextjid
       /\ JobsDone
             => /\ \A i \in Live :
                      jobs[i].state \in {BG, ST}
                         => Cardinality({k \in 1..Len(out') :
                               out'[k] = Line(stateName(jobs[i].state),
                                              jobs[i].jid, jobs[i].pid, 0,
                                              jobs[i].cmdline)}) = 1
                /\ \A k \in 1..Len(out') :
                      /\ out'[k].msg \in {"Running", "Stopped"}
                      /\ out'[k].jid >= 1 /\ out'[k].pid >= 1
                      /\ out'[k].cmdline \in {cmdlineOf(TRUE), cmdlineOf(FALSE)}
                      /\ \A i \in FgSlots : jobs[i].pid # out'[k].pid]_vars

\* the steps that print a job announcement: eval of a background command,
\* and bg
Announces ==
    /\ MainRuns
    /\ \/ pc = "blocked" /\ m.bg /\ pc' = "prompt"
       \/ pc = "bgfg_set" /\ m.isbg /\ pc' # pc

\* C15 as stated: the announcement printed for a background command and by
\* bg is the line the jobs listing prints for that job: job id, pid, the
\* state word Running and the command text.
C15_AnnouncementLikeListing ==
    [][Announces
          => /\ out' # <<>>
             /\ \E k \in 1..Len(listbgjobs(jobs')) :
                   listbgjobs(jobs')[k] = out'[Len(out')]]_vars

\* C15 amended: the announcement is "[jid] (pid) cmdline" with no state
\* word; for a background command it carries the job id, pid and command
\* text of the job just inserted, for bg those of the target slot as they
\* are when it is printed.
C15_AnnouncementFields ==
    [][/\ (Announces /\ pc = "blocked")
             => /\ getjobpid(jobs', m.pid) # 0
                /\ LET job == jobs'[getjobpid(jobs', m.pid)]
                   IN  /\ job.jid >= 1 /\ job.state = BG
                       /\ out' = <<Line("", job.jid, m.pid, 0, cmdlineOf(TRUE))>>
       /\ (Announces /\ pc = "bgfg_set")
             => out' = <<Line("", jobs[m.job].jid, jobs[m.job].pid, 0,
                              jobs[m.job].cmdline)>>]_vars

\* C15 witness: bg has announced a live stopped job that it resumes
C15_Witness ==
    /\ pc = "bgfg_unblock" /\ m.isbg
    /\ jobs[m.job].pid # 0 /\ jobs[m.job].state = BG
    /\ out = <<Line("", jobs[m.job].jid, jobs[m.job].pid, 0,
                    jobs[m.job].cmdline)>>

\* sigchld_handler has reaped pid p and has not yet gone round its loop
Reaping(p) ==
    \E k \in 1..Len(stack) :
        /\ stack[k].sig = "CHLD" /\ stack[k].pid = p
        /\ stack[k].pc \in {"del_exit", "print_sig", "del_sig"}

\* C16: sigchld_handler never reaps the child of an external command
\* between its fork and its addjob, so the table never holds a job whose
\* process has been reaped (but for the handler that is about to delete it).
C16_NoReapBeforeInsert ==
    /\ pc \in {"forked", "blocked"} => proc[m.pid] # "reaped"
    /\ \A i \in Live : proc[jobs[i].pid] = "reaped" => Reaping(jobs[i].pid)

\* a step of the main line that reads or writes the job table outside the
\* critical section of eval: the lookup, the state check, the kill (which
\* reads job->pid), the state write and the read for waitfg in do_bgfg,
\* the fgpid of waitfg, the reads of listbgjobs
MainAccess ==
    /\ MainRuns
    /\ <<pc, m>>' # <<pc, m>>
    /\ \/ pc = "prompt" /\ pc' = "bgfg_check"
       \/ pc \in {"bgfg_check", "bgfg_kill", "bgfg_set", "bgfg_wait",
                  "waitfg_check"}
       \/ JobsStep

\* C17: every access of the main line to the job table happens while all
\* signals are blocked.
C17_AccessUnderBlock == [][MainAccess => Sigs \subseteq mask]_vars

\* C18: in do_bgfg the slot resolved as target still holds the live job when
\* SIGCONT is sent and when the state is written (no job is added while
\* do_bgfg runs, so a live slot holds the job that was looked up): SIGCONT
\* never goes to process group 0 and the state never goes into a free slot.
C18_TargetStillLive ==
    [][/\ (MainRuns /\ pc = "bgfg_kill" /\ pc' # pc)
             => /\ jobs[m.job].pid # 0
                /\ sent' # NoSig => sent'[1] >= 1
       /\ (MainRuns /\ pc = "bgfg_set" /\ pc' # pc)
             => jobs[m.job].pid # 0 /\ jobs'[m.job].pid # 0]_vars

\* C19: in sigint_handler and sigtstp_handler the pid that fgpid returned
\* is the pid of a live job whose process has not been reaped when the
\* signal is relayed, so the relay does not fail; and in sigtstp_handler
\* getjobpid finds that job when it is to be marked ST.
C19_ForegroundPidStaysValid ==
    [][/\ \A sig \in {"INT", "TSTP"} :
             (HandlerStep(sig) /\ Top.pc = "kill")
                => /\ getjobpid(jobs, Top.pid) # 0
                   /\ proc[Top.pid] # "reaped"
                   /\ pc' # "exit"
       /\ (HandlerStep("TSTP") /\ Top.pc = "mark")
             => getjobpid(jobs, Top.pid) # 0 /\ pc' # "segv"]_vars

\* C20: waitfg returns to the read loop only when the job it waited for is
\* not an FG job of the table, and whenever the main line is in the read
\* loop, about to evaluate a command, no slot is FG.
C20_NoForegroundAtPrompt ==
    [][/\ (MainRuns /\ pc = "waitfg_check" /\ pc' = "prompt")
             => ~\E i \in Live : jobs[i].pid = m.pid /\ jobs[i].state = FG
       /\ pc = "prompt" => FgSlots = {}
       /\ pc' = "prompt" => \A i \in Slots(jobs') : jobs'[i].state # FG]_vars

\* C20 witness: the main line is back in the read loop from the wait for a
\* foreground command whose job is still in the table, stopped
C20_Witness ==
    /\ pc = "prompt" /\ stack = <<>>
    /\ \E i \in Live : /\ jobs[i].state = ST
                       /\ jobs[i].cmdline = cmdlineOf(FALSE)
                       /\ proc[jobs[i].pid] \in {"stopnew", "stopped"}

\* C21: in every reachable state a slot has pid 0 exactly when its state is
\* UNDEF and its job id is 0, and a slot with pid # 0 has a state among FG,
\* BG, ST and a job id >= 1.
C21_SlotsWellFormed ==
    \A i \in Slots(jobs) :
        /\ jobs[i].pid = 0 <=> (jobs[i].state = UNDEF /\ jobs[i].jid = 0)
        /\ jobs[i].pid # 0 => /\ jobs[i].state \in {FG, BG, ST}
                              /\ jobs[i].jid >= 1

====
